---- MODULE Spec2Model ----
(***************************************************************************)
(* Model of the quote lifecycle controller `useQuotes` (the hook in        *)
(* src/unnamed/part_001): its React state, the polling timer handle, and   *)
(* the asynchronous continuations of getQuote, executeQuote and of the     *)
(* setInterval callback, interleaved on one task queue.                    *)
(*                                                                         *)
(* Optional values (T | null, T | undefined) are sequences of length <= 1: *)
(* None is null/undefined, Some(x) is a present value.  Strings that the   *)
(* code parses are sequences of one-character strings.                     *)
(***************************************************************************)
EXTENDS Integers, Sequences, FiniteSets, Bags, TLC

\* Bounds of the model.
MaxCalls == 3     \* getQuote and executeQuote invocations in one behaviour
MaxPolls == 2     \* status requests in flight at one time
MaxClock == 2     \* the clock runs up to MaxClock seconds

None == <<>>
Some(x) == <<x>>

\* ---------------------------------------------------------------- data ----

Digits == {"0", "1", "2", "3", "4", "5", "6", "7", "8", "9"}
HexLetters == {"a", "b", "c", "d", "e", "f", "A", "B", "C", "D", "E", "F"}

\* The white space parseInt strips from the front of its argument: every
\* StrWhiteSpaceChar of the language, 25 characters.  A character is a string
\* of length one; a code point that a string of this module cannot hold is
\* written by its name, "U+2000" for U+2000.
\*   first line : U+0009 tab, U+000A line feed, U+000B vertical tab,
\*                U+000C form feed, U+000D carriage return, U+0020 space
\*   second line: U+00A0 no-break space, U+1680 ogham space mark,
\*                U+FEFF zero width no-break space
\*   then       : U+2000..U+200A (en quad .. hair space), U+2028 line
\*                separator, U+2029 paragraph separator, U+202F narrow
\*                no-break space, U+205F medium mathematical space,
\*                U+3000 ideographic space
WhiteSpace ==
    { "\t", "\n", "", "\f", "\r", " ",
      " ", " ", "﻿",
      "U+2000", "U+2001", "U+2002", "U+2003", "U+2004", "U+2005", "U+2006",
      "U+2007", "U+2008", "U+2009", "U+200A",
      "U+2028", "U+2029", "U+202F", "U+205F", "U+3000" }

DigitValue(c) ==
    CASE c = "0" -> 0 [] c = "1" -> 1 [] c = "2" -> 2 [] c = "3" -> 3
      [] c = "4" -> 4 [] c = "5" -> 5 [] c = "6" -> 6 [] c = "7" -> 7
      [] c = "8" -> 8 [] c = "9" -> 9
      [] c \in {"a", "A"} -> 10 [] c \in {"b", "B"} -> 11
      [] c \in {"c", "C"} -> 12 [] c \in {"d", "D"} -> 13
      [] c \in {"e", "E"} -> 14 [] c \in {"f", "F"} -> 15

\* A number value is Some(n); NaN is the value that is no number.
NaN == <<>>

RECURSIVE TrimStart(_)
TrimStart(s) ==
    IF s # <<>> /\ Head(s) \in WhiteSpace THEN TrimStart(Tail(s)) ELSE s

\* The longest prefix of s made of digits of the radix.
RECURSIVE LeadingDigits(_, _)
LeadingDigits(s, radix) ==
    IF s = <<>> \/ Head(s) \notin Digits \cup HexLetters
       \/ DigitValue(Head(s)) >= radix
    THEN <<>>
    ELSE <<Head(s)>> \o LeadingDigits(Tail(s), radix)

RECURSIVE DigitsValue(_, _)
DigitsValue(ds, radix) ==
    IF ds = <<>> THEN 0
    ELSE radix * DigitsValue(SubSeq(ds, 1, Len(ds) - 1), radix)
         + DigitValue(ds[Len(ds)])

\* parseInt(string), no radix given: leading white space is dropped, a sign
\* is read, a 0x or 0X prefix makes the radix 16 (10 otherwise), and the
\* longest prefix of digits of the radix is the number; NaN if it is empty.
parseInt(string) ==
    LET trimmed  == TrimStart(string)
        signed   == trimmed # <<>> /\ Head(trimmed) \in {"+", "-"}
        sign     == IF trimmed # <<>> /\ Head(trimmed) = "-" THEN -1 ELSE 1
        unsigned == IF signed THEN Tail(trimmed) ELSE trimmed
        hex      == /\ Len(unsigned) >= 2
                    /\ unsigned[1] = "0"
                    /\ unsigned[2] \in {"x", "X"}
        radix    == IF hex THEN 16 ELSE 10
        body     == IF hex THEN Tail(Tail(unsigned)) ELSE unsigned
        ds       == LeadingDigits(body, radix)
    IN  IF ds = <<>> THEN NaN ELSE Some(sign * DigitsValue(ds, radix))

\* number * 1000; NaN * 1000 is NaN.
Times1000(n) == IF n = NaN THEN NaN ELSE Some(n[1] * 1000)

\* a > b on number values: false when either is NaN.
Greater(a, b) == a # NaN /\ b # NaN /\ a[1] > b[1]

\* Quote.expirationTimestamp values the remote service issues (seconds, as a
\* string).
Quotes ==
    {[id |-> "q1", expirationTimestamp |-> <<"1">>],
     [id |-> "q2", expirationTimestamp |-> <<"2">>]}

\* SimpleQuoteRequest: recipientAddress is optional.
BaseRequest ==
    [fromTokenAmount |-> "100", fromAggregatedAssetId |-> "usdc",
     toAggregatedAssetId |-> "eth"]
RecipientAddresses == {"", "eip155:1:0xABC"}
WithRecipient(r) ==
    [fromTokenAmount |-> "100", fromAggregatedAssetId |-> "usdc",
     toAggregatedAssetId |-> "eth", recipientAddress |-> r]
SimpleQuoteRequests == {BaseRequest} \cup {WithRecipient(r) : r \in RecipientAddresses}

WalletAddress == "0xW1"
AccountAddress == "0xACC"

\* What a rejected promise carries: an Error with a message, or another value.
Thrown == {[isError |-> TRUE, message |-> "Network error"],
           [isError |-> FALSE, message |-> "boom"]}

\* err instanceof Error ? err.message : fallback
ErrorMessage(err, fallback) == IF err.isError THEN err.message ELSE fallback

\* The status values of a status response {status}.
PollStatuses == {"PENDING", "COMPLETED", "FAILED"}

\* What usePrivy() and useEmbeddedWallet() hold at the render a call is made
\* from: authenticated, and the wallet (None or Some(address)).
Connections == [authenticated : BOOLEAN, embeddedWallet : {None, Some(WalletAddress)}]

InitState ==
    [quote |-> None, status |-> None, loading |-> FALSE, error |-> None,
     isPolling |-> FALSE]

\* --------------------------------------------------------------- state ----

VARIABLES
    state,             \* useState<QuoteState>
    statusPollingRef,  \* useRef: 0 is null, e > 0 the interval of invocation e
    timers,            \* the intervals that are installed and not cleared
    mounted,           \* FALSE once the effect cleanup has run
    predictedAddress,  \* usePredictedAddress().predictedAddress (the cache)
    clock,             \* seconds since the epoch; Date.now() is clock * 1000
    gets,              \* the getQuote invocations so far (a bag)
    execs,             \* the executeQuote invocations so far (a sequence)
    polls,             \* the status requests in flight (a bag of invocations)
    rendered,          \* the values of state.quote the renders so far have held
    issued             \* 0 until the first status request is issued, then 1

vars == <<state, statusPollingRef, timers, mounted, predictedAddress, clock,
          gets, execs, polls, issued, rendered>>

Now == clock * 1000

Calls == BagCardinality(gets) + Len(execs)

Put(bag, x) == bag (+) SetToBag({x})
Take(bag, x) == bag (-) SetToBag({x})

\* React drops the state updates of an unmounted component.
SetState(s) == IF mounted THEN s ELSE state

\* ----------------------------------------------------------- resetQuote ----

\* if (statusPollingRef.current) clearInterval(statusPollingRef.current)
ClearPolling(ref, active) == IF ref # 0 THEN active \ {ref} ELSE active

\* if (statusPollingRef.current) statusPollingRef.current = null
ClearRef(ref) == 0

\* Mutant: the status is not reset.
ResetState_KeepsStatus(s) == [InitState EXCEPT !.status = s.status]

ResetState(s) == InitState

resetQuote ==
    /\ timers' = ClearPolling(statusPollingRef, timers)
    /\ statusPollingRef' = ClearRef(statusPollingRef)
    /\ state' = SetState(ResetState(state))
    /\ UNCHANGED <<rendered, mounted, predictedAddress, clock, gets, execs, polls, issued>>

\* ------------------------------------------------------------- getQuote ----

\* !authenticated || !embeddedWallet
NotConnected(conn) == ~conn.authenticated \/ conn.embeddedWallet = None

\* Mutant: account is always present, empty when there is no recipient.
ToPart_EmptyAccount(request) ==
    [asset |-> [assetId |-> request.toAggregatedAssetId],
     account |-> IF "recipientAddress" \in DOMAIN request
                 THEN request.recipientAddress ELSE ""]

\* The `to` part: account is spread in only when recipientAddress is truthy.
ToPart(request) ==
    IF "recipientAddress" \in DOMAIN request /\ request.recipientAddress # ""
    THEN [asset |-> [assetId |-> request.toAggregatedAssetId],
          account |-> request.recipientAddress]
    ELSE [asset |-> [assetId |-> request.toAggregatedAssetId]]

BuildQuoteRequest(request, walletAddress, predicted) ==
    [from |-> [account |-> [sessionAddress |-> walletAddress,
                            adminAddress |-> walletAddress,
                            accountAddress |-> predicted],
               asset |-> [assetId |-> request.fromAggregatedAssetId],
               amount |-> request.fromTokenAmount],
     to |-> ToPart(request)]

GetQuoteStart(s) == [s EXCEPT !.loading = TRUE, !.error = None]
\* Mutant: a result is dropped when a quote is already held.
GetQuoteSuccess_FirstWins(s, quote) ==
    IF s.quote # None THEN [s EXCEPT !.loading = FALSE]
    ELSE [s EXCEPT !.quote = Some(quote), !.loading = FALSE]

GetQuoteSuccess(s, quote) == [s EXCEPT !.quote = Some(quote), !.loading = FALSE]
\* Mutant: a failed fetch drops the quote that was held.
GetQuoteCatch_ClearsQuote(s, err) ==
    [s EXCEPT !.quote = None,
              !.error = Some(ErrorMessage(err, "Failed to get quote")),
              !.loading = FALSE]

GetQuoteCatch(s, err) ==
    [s EXCEPT !.error = Some(ErrorMessage(err, "Failed to get quote")),
              !.loading = FALSE]
\* Mutant: the precondition branch also clears loading, as the catch does.
PreconditionError_ClearsLoading(s, msg) ==
    [s EXCEPT !.error = Some(msg), !.loading = FALSE]

PreconditionError(s, msg) == [s EXCEPT !.error = Some(msg)]

\* An invocation's record: where it is, the request and wallet its closure
\* holds, and the request it has sent to the remote quote endpoint.  A
\* finished invocation keeps its pc alone.
GetRecord(pc, request, wallet, quoteRequest) ==
    [pc |-> pc, request |-> request, wallet |-> wallet, quoteRequest |-> quoteRequest]
Finished(pc) == GetRecord(pc, None, None, None)

\* Mutant: the cached address is ignored and the resolver always called.
NeedsResolver_Always(cache) == TRUE

\* let predicted = predictedAddress; if (!predicted) ...
NeedsResolver(cache) == cache = None

\* The values of predictedAddress the callbacks of the renders so far have
\* captured: the cache as it is, and the empty cache of the first render.
CapturedAddresses == {None, predictedAddress}

\* getQuote through the callback of a render that held the connection conn
\* and the address predicted.  The resolver, called while the context holds
\* an address, answers with it ("cached"); otherwise it derives one
\* ("resolving").
getQuote(request, conn, predicted) ==
    /\ Calls < MaxCalls
    /\ IF NotConnected(conn)
       THEN /\ state' = SetState(PreconditionError(state, "Wallet not connected"))
            /\ gets' = Put(gets, Finished("notConnected"))
       ELSE /\ state' = SetState(GetQuoteStart(state))
            /\ IF ~NeedsResolver(predicted)
               THEN gets' = Put(gets,
                        GetRecord("fetching", Some(request), conn.embeddedWallet,
                            Some(BuildQuoteRequest(request, conn.embeddedWallet[1],
                                                   predicted[1]))))
               ELSE gets' = Put(gets,
                        GetRecord(IF predictedAddress = None THEN "resolving"
                                  ELSE "cached",
                                  Some(request), conn.embeddedWallet, None))
    /\ UNCHANGED <<rendered, statusPollingRef, timers, mounted, predictedAddress, clock,
                   execs, polls, issued>>

\* The address resolver of the context (usePredictedAddress): a derived
\* address is cached, a failed derivation leaves the cache empty.
CacheResolved(cache, address) == Some(address)

\* getPredictedAddress() called by the caller itself (the hook returns it):
\* the context caches the derived address; a failed derivation changes
\* nothing.
getPredictedAddress ==
    /\ predictedAddress' = CacheResolved(predictedAddress, AccountAddress)
    /\ UNCHANGED <<rendered, state, statusPollingRef, timers, mounted, clock, gets,
                   execs, polls, issued>>

\* await getPredictedAddress() yields an address, which the context caches.
getQuote_resolved(g) ==
    /\ g.pc \in {"resolving", "cached"}
    /\ predictedAddress' = CacheResolved(predictedAddress, AccountAddress)
    /\ gets' = Put(Take(gets, g),
                   GetRecord("fetching", g.request, g.wallet,
                       Some(BuildQuoteRequest(g.request[1], g.wallet[1],
                                              AccountAddress))))
    /\ UNCHANGED <<rendered, state, statusPollingRef, timers, mounted, clock, execs, polls, issued>>

\* await getPredictedAddress() yields nothing, or rejects; the cache stays empty.
ResolveFailures ==
    {[isError |-> TRUE, message |-> "Failed to get account address"]} \cup Thrown

getQuote_resolveFailed(g, err) ==
    /\ g.pc = "resolving"
    /\ state' = SetState(GetQuoteCatch(state, err))
    /\ gets' = Put(Take(gets, g), Finished("resolveFailed"))
    /\ UNCHANGED <<rendered, statusPollingRef, timers, mounted, predictedAddress, clock,
                   execs, polls, issued>>

getQuote_fetched(g, quote) ==
    /\ g.pc = "fetching"
    /\ state' = SetState(GetQuoteSuccess(state, quote))
    /\ gets' = Put(Take(gets, g), Finished("done"))
    /\ rendered' = rendered \cup {state'.quote}
    /\ UNCHANGED <<statusPollingRef, timers, mounted, predictedAddress, clock,
                   execs, polls, issued>>

getQuote_fetchFailed(g, err) ==
    /\ g.pc = "fetching"
    /\ state' = SetState(GetQuoteCatch(state, err))
    /\ gets' = Put(Take(gets, g), Finished("fetchFailed"))
    /\ UNCHANGED <<rendered, statusPollingRef, timers, mounted, predictedAddress, clock,
                   execs, polls, issued>>

\* --------------------------------------------------------- executeQuote ----

\* Mutant: the comparison the wrong way round.
Expired_Reversed(now, quote) ==
    LET expirationTime == Times1000(parseInt(quote.expirationTimestamp))
    IN  Greater(expirationTime, Some(now))

\* Date.now() > parseInt(expirationTimestamp) * 1000; a comparison with NaN
\* is false.
Expired(now, quote) ==
    LET expirationTime == Times1000(parseInt(quote.expirationTimestamp))
    IN  Greater(Some(now), expirationTime)

ExecuteStart(s) == [s EXCEPT !.loading = TRUE, !.error = None]
ExpiredError(s) == [s EXCEPT !.error = Some("Quote has expired"), !.loading = FALSE]
\* Mutant: the outer catch also clears isPolling.
ExecuteCatch_ClearsPolling(s, err) ==
    [s EXCEPT !.error = Some(ErrorMessage(err, "Failed to execute quote")),
              !.loading = FALSE, !.isPolling = FALSE]

ExecuteCatch(s, err) ==
    [s EXCEPT !.error = Some(ErrorMessage(err, "Failed to execute quote")),
              !.loading = FALSE]
StartPolling(s) == [s EXCEPT !.isPolling = TRUE]

\* An invocation's record: where it is, the id of the quote its closure holds,
\* and the collaborators it has called (signQuote, quotesApi.executeQuote,
\* setInterval).
NewExec(pc, quote, signed) ==
    [pc |-> pc,
     quoteId |-> IF quote = None THEN None ELSE Some(quote[1].id),
     signed |-> signed, submitted |-> FALSE, installed |-> FALSE]

\* The synchronous part of executeQuote, up to the call of signQuote.
ExecuteOutcome(conn, quote, now) ==
    IF NotConnected(conn) THEN "notConnected"
    ELSE IF quote = None THEN "noQuote"
    ELSE IF Expired(now, quote[1]) THEN "expired"
    ELSE "signing"

\* executeQuote through the callback of a render that held the connection
\* conn and the quote `quote` (state.quote of that render).
executeQuote(conn, quote) ==
    LET outcome == ExecuteOutcome(conn, quote, Now)
    IN  /\ Calls < MaxCalls
        /\ execs' = Append(execs, NewExec(outcome, quote, outcome = "signing"))
        /\ state' = SetState(
             CASE outcome = "notConnected" ->
                    PreconditionError(state, "Wallet not connected")
               [] outcome = "noQuote" ->
                    PreconditionError(state, "No quote to execute")
               [] outcome = "expired" -> ExpiredError(ExecuteStart(state))
               [] outcome = "signing" -> ExecuteStart(state))
        /\ UNCHANGED <<rendered, statusPollingRef, timers, mounted, predictedAddress,
                       clock, gets, polls, issued>>

\* What follows the await of signQuote: quotesApi.executeQuote is called.
AfterSign(x) == [x EXCEPT !.pc = "submitting", !.submitted = TRUE]

executeQuote_signed(e) ==
    /\ execs[e].pc = "signing"
    /\ execs' = [execs EXCEPT ![e] = AfterSign(@)]
    /\ UNCHANGED <<rendered, state, statusPollingRef, timers, mounted, predictedAddress,
                   clock, gets, polls, issued>>

\* Mutant: the failure is swallowed and the submission goes out all the same.
AfterThrow_StillSubmits(x, pc) == [x EXCEPT !.pc = pc, !.submitted = TRUE]

\* The catch block: nothing else of the invocation runs.
AfterThrow(x, pc) == [x EXCEPT !.pc = pc]

executeQuote_signFailed(e, err) ==
    /\ execs[e].pc = "signing"
    /\ state' = SetState(ExecuteCatch(state, err))
    /\ execs' = [execs EXCEPT ![e] = AfterThrow(@, "signFailed")]
    /\ UNCHANGED <<rendered, statusPollingRef, timers, mounted, predictedAddress, clock,
                   gets, polls, issued>>

\* Mutant: the existing interval is not cleared first.
InstallTimer_NoClear(ref, active, e) == active \cup {e}

\* setInterval, after clearing the interval the handle references.
InstallTimer(ref, active, e) == ClearPolling(ref, active) \cup {e}

\* What follows the await of quotesApi.executeQuote: polling starts.
executeQuote_submitted(e) ==
    /\ execs[e].pc = "submitting"
    /\ state' = SetState(StartPolling(state))
    /\ timers' = InstallTimer(statusPollingRef, timers, e)
    /\ statusPollingRef' = e
    /\ execs' = [execs EXCEPT ![e].pc = "polling", ![e].installed = TRUE]
    /\ UNCHANGED <<rendered, mounted, predictedAddress, clock, gets, polls, issued>>

executeQuote_submitFailed(e, err) ==
    /\ execs[e].pc = "submitting"
    /\ state' = SetState(ExecuteCatch(state, err))
    /\ execs' = [execs EXCEPT ![e] = AfterThrow(@, "submitFailed")]
    /\ UNCHANGED <<rendered, statusPollingRef, timers, mounted, predictedAddress, clock,
                   gets, polls, issued>>

\* -------------------------------------------------- setInterval callback ----

\* statusResponse?.status === 'COMPLETED' || statusResponse?.status === 'FAILED'
\* Mutant: only COMPLETED ends the poll.
IsTerminal_CompletedOnly(status) == status = "COMPLETED"

IsTerminal(status) == status = "COMPLETED" \/ status = "FAILED"

PollRecord(s, response) == [s EXCEPT !.status = Some(response)]
\* Mutant: the terminal branch forgets the loading flag.
PollStop_KeepsLoading(s) == [s EXCEPT !.isPolling = FALSE]

PollStop(s) == [s EXCEPT !.loading = FALSE, !.isPolling = FALSE]
\* Mutant: the catch branch leaves isPolling as it is.
PollCatch_KeepsPolling(s, err) ==
    [s EXCEPT !.error = Some(ErrorMessage(err, "Failed to get status")),
              !.loading = FALSE]

PollCatch(s, err) ==
    [s EXCEPT !.error = Some(ErrorMessage(err, "Failed to get status")),
              !.loading = FALSE, !.isPolling = FALSE]

\* An installed interval fires when its delay has passed.
TimerFires(e, active) == e \in active

\* The interval of invocation e fires: quotesApi.getQuoteStatus(quote.id) is
\* called, and the request is in flight.  The callback keeps no count of its
\* requests: the interval fires for as long as it is active.
pollTick(e) ==
    /\ TimerFires(e, timers)
    /\ BagCardinality(polls) < MaxPolls
    /\ issued' = 1
    /\ polls' = Put(polls, e)
    /\ UNCHANGED <<rendered, state, statusPollingRef, timers, mounted, predictedAddress,
                   clock, gets, execs>>

\* The await of a status request of invocation e completes with a response.
pollResponse(e, status) ==
    LET response == [status |-> status, quoteId |-> execs[e].quoteId[1]]
    IN  /\ BagIn(e, polls)
        /\ polls' = Take(polls, e)
        /\ IF IsTerminal(response.status)
           THEN /\ timers' = ClearPolling(statusPollingRef, timers)
                /\ statusPollingRef' = ClearRef(statusPollingRef)
                /\ state' = SetState(PollStop(PollRecord(state, response)))
           ELSE /\ state' = SetState(PollRecord(state, response))
                /\ UNCHANGED <<timers, statusPollingRef>>
        /\ UNCHANGED <<rendered, mounted, predictedAddress, clock, gets, execs, issued>>

\* The await of a status request of invocation e rejects.
pollError(e, err) ==
    /\ BagIn(e, polls)
    /\ polls' = Take(polls, e)
    /\ timers' = ClearPolling(statusPollingRef, timers)
    /\ statusPollingRef' = ClearRef(statusPollingRef)
    /\ state' = SetState(PollCatch(state, err))
    /\ UNCHANGED <<rendered, mounted, predictedAddress, clock, gets, execs, issued>>

\* ------------------------------------------------------- effect cleanup ----

\* The cleanup clears the referenced interval and leaves the handle as it is.
unmount ==
    /\ mounted
    /\ mounted' = FALSE
    /\ timers' = ClearPolling(statusPollingRef, timers)
    /\ UNCHANGED <<rendered, state, statusPollingRef, predictedAddress, clock, gets,
                   execs, polls, issued>>

\* ---------------------------------------------------------- environment ----

clockTick ==
    /\ clock < MaxClock
    /\ clock' = clock + 1
    /\ UNCHANGED <<rendered, state, statusPollingRef, timers, mounted, predictedAddress,
                   gets, execs, polls, issued>>

\* ------------------------------------------------------- specification ----

Init ==
    /\ state = InitState
    /\ statusPollingRef = 0
    /\ timers = {}
    /\ mounted = TRUE
    /\ predictedAddress = None
    /\ clock = 1
    /\ gets = EmptyBag
    /\ execs = <<>>
    /\ polls = EmptyBag
    /\ issued = 0
    /\ rendered = {None}

Next ==
    \/ resetQuote
    \/ \E request \in SimpleQuoteRequests, conn \in Connections,
          predicted \in CapturedAddresses : getQuote(request, conn, predicted)
    \/ getPredictedAddress
    \/ \E g \in BagToSet(gets) : getQuote_resolved(g)
    \/ \E g \in BagToSet(gets), err \in ResolveFailures : getQuote_resolveFailed(g, err)
    \/ \E g \in BagToSet(gets), quote \in Quotes : getQuote_fetched(g, quote)
    \/ \E g \in BagToSet(gets), err \in Thrown : getQuote_fetchFailed(g, err)
    \/ \E conn \in Connections, quote \in rendered : executeQuote(conn, quote)
    \/ \E e \in DOMAIN execs : executeQuote_signed(e)
    \/ \E e \in DOMAIN execs, err \in Thrown : executeQuote_signFailed(e, err)
    \/ \E e \in DOMAIN execs : executeQuote_submitted(e)
    \/ \E e \in DOMAIN execs, err \in Thrown : executeQuote_submitFailed(e, err)
    \/ \E e \in DOMAIN execs : pollTick(e)
    \/ \E e \in DOMAIN execs, status \in PollStatuses : pollResponse(e, status)
    \/ \E e \in DOMAIN execs, err \in Thrown : pollError(e, err)
    \/ unmount
    \/ clockTick

Spec == Init /\ [][Next]_vars

\* -------------------------------------------------------------- claims ----

Connected(conn) == conn.authenticated /\ conn.embeddedWallet # None

\* The invocation an executeQuote step has just added.
NewestExec == execs'[Len(execs')]

\* C1: executeQuote on a held quote (the quote its callback holds) whose
\* expirationTimestamp * 1000 is strictly less than the clock ends with
\* error 'Quote has expired' and loading = false, and that invocation never
\* calls signQuote or quotesApi.executeQuote and never installs or issues
\* anything of a polling interval.
C1_ExpiredQuoteFails ==
    /\ [][\A conn \in Connections, quote \in rendered :
            (/\ executeQuote(conn, quote)
             /\ Connected(conn)
             /\ quote # None
             /\ parseInt(quote[1].expirationTimestamp) # NaN
             /\ parseInt(quote[1].expirationTimestamp)[1] * 1000 < Now)
            => (/\ mounted => (/\ state'.error = Some("Quote has expired")
                               /\ state'.loading = FALSE)
                /\ NewestExec.pc = "expired"
                /\ ~NewestExec.signed
                /\ timers' = timers
                /\ statusPollingRef' = statusPollingRef
                /\ polls' = polls)]_vars
    /\ [](\A e \in DOMAIN execs :
            execs[e].pc = "expired"
            => (/\ ~execs[e].signed /\ ~execs[e].submitted /\ ~execs[e].installed
                /\ e \notin timers /\ ~BagIn(e, polls)))

\* C1 witness: an invocation ended as expired and its error is on display.
C1_Witness ==
    /\ mounted
    /\ \E e \in DOMAIN execs : execs[e].pc = "expired"
    /\ state.error = Some("Quote has expired")
    /\ state.loading = FALSE

\* C2 (as claimed): at every clock value now >= expirationTimestamp * 1000,
\* equality included, executeQuote does not call signQuote.
C2_NoSigningAtOrAfterExpiration ==
    [][\A conn \in Connections, quote \in rendered :
         (/\ executeQuote(conn, quote)
          /\ Connected(conn)
          /\ quote # None
          /\ parseInt(quote[1].expirationTimestamp) # NaN
          /\ Now >= parseInt(quote[1].expirationTimestamp)[1] * 1000)
         => ~NewestExec.signed]_vars

\* C3: at most one polling interval is active at any instant and every
\* active interval is the one the handle references; a step that installs
\* an interval leaves it the only one active.
C3_SingleTimer ==
    /\ [](/\ Cardinality(timers) <= 1
           /\ \A t \in timers : t = statusPollingRef)
    /\ [][\A e \in DOMAIN execs :
            executeQuote_submitted(e)
            => (timers' = {e} /\ statusPollingRef' = e
                /\ (statusPollingRef # e => statusPollingRef \notin timers'))]_vars

\* C3 witness: the second invocation has installed its interval while the
\* first one's was still active (nothing had stopped it: no status request
\* was ever issued and no reset has emptied the quote).
C3_Witness ==
    /\ Len(execs) = 2
    /\ execs[1].installed /\ execs[2].installed
    /\ issued = 0
    /\ state.quote # None
    /\ mounted
    /\ timers = {2}
    /\ statusPollingRef = 2

\* Once the interval of an invocation has been cancelled it is never active
\* again and issues no further status request.
CancelledStaysCancelled ==
    \A e \in DOMAIN execs :
        (execs[e].installed /\ e \notin timers)
        => (e \notin timers' /\ CopiesIn(e, polls') <= CopiesIn(e, polls))

\* C4: the step that processes a COMPLETED or FAILED status response leaves
\* no interval active, the handle null, and (the status recorded) isPolling
\* and loading false; a cancelled interval issues no further status request.
C4_TerminalStopsPolling ==
    [][/\ \A e \in DOMAIN execs, status \in {"COMPLETED", "FAILED"} :
            pollResponse(e, status)
            => (/\ timers' = {}
                /\ statusPollingRef' = 0
                /\ mounted => (/\ state'.isPolling = FALSE
                               /\ state'.loading = FALSE
                               /\ state'.status # None
                               /\ state'.status[1].status = status))
       /\ CancelledStaysCancelled]_vars

\* C4 witness: a terminal status has been recorded and polling has stopped.
C4_Witness ==
    /\ mounted
    /\ state.status # None
    /\ state.status[1].status \in {"COMPLETED", "FAILED"}
    /\ state.isPolling = FALSE /\ state.loading = FALSE
    /\ timers = {} /\ statusPollingRef = 0
    /\ \E e \in DOMAIN execs : execs[e].installed

\* C5 (as claimed): also when responses are slower than the tick interval,
\* the terminal response is the last request of its execution (exactly k + 1
\* requests are issued, none is left in flight when it is processed), and a
\* terminal status, once recorded for the one execution there is, stays.
C5_ExactlyKPlusOneRequests ==
    [][\A e \in DOMAIN execs, status \in PollStatuses :
         pollResponse(e, status)
         => (/\ IsTerminal(status) => ~BagIn(e, polls')
             /\ (/\ mounted /\ Len(execs) = 1
                 /\ state.status # None /\ IsTerminal(state.status[1].status))
                => IsTerminal(state'.status[1].status))]_vars

\* C6: resetQuote leaves no interval active, the handle null and the state
\* exactly the initial one (the state of a mounted component: an unmounted
\* one takes no update); a second resetQuote would change nothing.
C6_ResetIsInitialAndIdempotent ==
    [][resetQuote
       => (/\ timers' = {}
           /\ statusPollingRef' = 0
           /\ mounted
              => state' = [quote |-> None, status |-> None, loading |-> FALSE,
                           error |-> None, isPolling |-> FALSE]
           /\ ClearPolling(statusPollingRef', timers') = timers'
           /\ ClearRef(statusPollingRef') = statusPollingRef'
           /\ mounted => ResetState(state') = state')]_vars

\* C6 witness: a reset has cancelled an installed interval (no status request
\* was ever issued, so nothing else can have stopped it).
C6_Witness ==
    /\ mounted
    /\ \E e \in DOMAIN execs : execs[e].installed
    /\ issued = 0
    /\ timers = {} /\ statusPollingRef = 0
    /\ state = InitState

\* C7: within one invocation sign, submit and poll-start happen in that
\* order and a later step never follows a failed one: a failed signing
\* leaves quotesApi.executeQuote uncalled and no interval installed, a failed
\* submission leaves no interval installed and isPolling as it was.
C7_StepsInOrder ==
    /\ [](\A e \in DOMAIN execs :
            /\ execs[e].submitted => execs[e].signed
            /\ execs[e].installed => execs[e].submitted
            /\ execs[e].pc \in {"notConnected", "noQuote", "expired"}
               => ~execs[e].signed
            /\ execs[e].pc = "signFailed" => ~execs[e].submitted
            /\ execs[e].pc \in {"signFailed", "submitFailed"}
               => (~execs[e].installed /\ e \notin timers))
    /\ [][\A e \in DOMAIN execs, err \in Thrown :
            (executeQuote_signFailed(e, err) \/ executeQuote_submitFailed(e, err))
            => (/\ state'.isPolling = state.isPolling
                /\ timers' = timers
                /\ statusPollingRef' = statusPollingRef)]_vars

\* C7 witness: one invocation failed at signing, another at submission.
C7_Witness ==
    /\ \E e \in DOMAIN execs : execs[e].pc = "signFailed"
    /\ \E e \in DOMAIN execs : execs[e].pc = "submitFailed" /\ execs[e].submitted

\* The from.account of a remote request: both keys are the embedded wallet's
\* address, the account address is the resolved one.
FromAccountRight(g) ==
    LET account == g.quoteRequest[1].from.account
    IN  /\ account.sessionAddress = g.wallet[1]
        /\ account.adminAddress = g.wallet[1]
        /\ account.accountAddress = AccountAddress

\* The getQuote invocations whose remote request is out.
Sent == {g \in BagToSet(gets) : g.quoteRequest # None}

\* C8 (as claimed): without recipientAddress to.account is absent, and with
\* any recipientAddress string r to.account is r.
C8_AccountIffRecipientGiven ==
    \A g \in Sent :
        LET to == g.quoteRequest[1].to
        IN  /\ "recipientAddress" \notin DOMAIN g.request[1]
               => "account" \notin DOMAIN to
            /\ "recipientAddress" \in DOMAIN g.request[1]
               => ("account" \in DOMAIN to
                   /\ to.account = g.request[1].recipientAddress)
            /\ FromAccountRight(g)

\* C8 (amended): without recipientAddress, or with the empty string,
\* to.account is absent; with a non-empty recipientAddress r it is r.
C8_AccountIffRecipientNonEmpty ==
    \A g \in Sent :
        LET to == g.quoteRequest[1].to
            given == /\ "recipientAddress" \in DOMAIN g.request[1]
                     /\ g.request[1].recipientAddress # ""
        IN  /\ ~given => "account" \notin DOMAIN to
            /\ given => ("account" \in DOMAIN to
                         /\ to.account = g.request[1].recipientAddress)
            /\ FromAccountRight(g)

\* C8 witness: a transfer request and a request with an empty recipient are
\* both out.
C8_Witness ==
    /\ \E g \in Sent : /\ "recipientAddress" \in DOMAIN g.request[1]
                        /\ g.request[1].recipientAddress = "eip155:1:0xABC"
                        /\ "account" \in DOMAIN g.quoteRequest[1].to
    /\ \E g \in Sent : /\ "recipientAddress" \in DOMAIN g.request[1]
                        /\ g.request[1].recipientAddress = ""

\* C9: the step that processes a rejected status request leaves no interval
\* active, the handle null, the error message stored and isPolling and
\* loading false; a cancelled interval issues no further status request.
C9_PollErrorStopsPolling ==
    [][/\ \A e \in DOMAIN execs, err \in Thrown :
            pollError(e, err)
            => (/\ timers' = {}
                /\ statusPollingRef' = 0
                /\ mounted
                   => (/\ state'.error =
                            Some(IF err.isError THEN err.message
                                 ELSE "Failed to get status")
                       /\ state'.isPolling = FALSE
                       /\ state'.loading = FALSE))
       /\ CancelledStaysCancelled]_vars

\* C9 witness: a rejected status request has ended the polling.
C9_Witness ==
    /\ mounted
    /\ state.error = Some("Failed to get status")
    /\ state.isPolling = FALSE /\ state.loading = FALSE
    /\ timers = {} /\ statusPollingRef = 0

\* C10: a getQuote that fails (at address resolution or at the remote quote
\* endpoint) leaves the held quote as it was, stores the error message and
\* clears loading.
C10_FailedGetQuoteKeepsQuote ==
    [][\A g \in BagToSet(gets), err \in ResolveFailures \cup Thrown :
         (mounted /\ (getQuote_resolveFailed(g, err) \/ getQuote_fetchFailed(g, err)))
         => (/\ state'.quote = state.quote
             /\ state'.status = state.status
             /\ state'.error = Some(IF err.isError THEN err.message
                                    ELSE "Failed to get quote")
             /\ state'.loading = FALSE)]_vars

\* C10 witness: a refresh has failed while a quote was held, and the quote
\* is still there.
C10_Witness ==
    /\ mounted
    /\ state.quote # None
    /\ state.error = Some("Failed to get quote")
    /\ BagIn(Finished("done"), gets)
    /\ BagIn(Finished("fetchFailed"), gets)

\* The getQuote invocations a step has added.
NewGets == {g \in BagToSet(gets') : CopiesIn(g, gets') > CopiesIn(g, gets)}

\* Nothing but the error field of the state differs, and the handle and the
\* intervals are as they were.
OnlyErrorChanges ==
    /\ state'.quote = state.quote
    /\ state'.status = state.status
    /\ state'.loading = state.loading
    /\ state'.isPolling = state.isPolling
    /\ statusPollingRef' = statusPollingRef
    /\ timers' = timers

\* C11: getQuote or executeQuote called while not authenticated or without
\* an embedded wallet, and executeQuote called with no quote held (by the
\* render its callback comes from, which is where the test reads it), change
\* the error field alone (quote, status, loading, isPolling and the handle
\* stay) and call neither getPredictedAddress, quotesApi.getQuote, signQuote
\* nor quotesApi.executeQuote.
C11_PreconditionFailureOnlySetsError ==
    [][/\ (/\ gets' # gets
           /\ \E request \in SimpleQuoteRequests, conn \in Connections,
                 predicted \in CapturedAddresses :
                NotConnected(conn) /\ getQuote(request, conn, predicted))
            => (/\ OnlyErrorChanges
                /\ mounted => state'.error = Some("Wallet not connected")
                /\ predictedAddress' = predictedAddress
                /\ \A g \in NewGets : g.pc = "notConnected" /\ g.quoteRequest = None
                /\ execs' = execs)
       /\ Len(execs') > Len(execs)
          => \A conn \in Connections, quote \in rendered :
            ((NotConnected(conn) \/ quote = None) /\ executeQuote(conn, quote))
            => (/\ OnlyErrorChanges
                /\ mounted
                   => state'.error = Some(IF NotConnected(conn)
                                          THEN "Wallet not connected"
                                          ELSE "No quote to execute")
                /\ predictedAddress' = predictedAddress
                /\ NewestExec.pc \in {"notConnected", "noQuote"}
                /\ ~NewestExec.signed /\ ~NewestExec.submitted
                /\ ~NewestExec.installed
                /\ gets' = gets)]_vars

\* C11 witness: both precondition failures have happened while another
\* invocation had loading set, and loading is still set.
C11_Witness ==
    /\ mounted
    /\ BagIn(Finished("notConnected"), gets)
    /\ \E e \in DOMAIN execs : execs[e].pc = "noQuote"
    /\ state.loading = TRUE
    /\ state.error = Some("No quote to execute")


\* A step of getQuote, executeQuote or the interval callback that records an
\* error.
RecordsError ==
    \/ \E request \in SimpleQuoteRequests, conn \in Connections,
          predicted \in CapturedAddresses :
         getQuote(request, conn, predicted) /\ NotConnected(conn)
    \/ \E g \in BagToSet(gets), err \in ResolveFailures :
         getQuote_resolveFailed(g, err)
    \/ \E g \in BagToSet(gets), err \in Thrown : getQuote_fetchFailed(g, err)
    \/ \E conn \in Connections, quote \in rendered :
         executeQuote(conn, quote) /\ ExecuteOutcome(conn, quote, Now) # "signing"
    \/ \E e \in DOMAIN execs, err \in Thrown :
         \/ executeQuote_signFailed(e, err)
         \/ executeQuote_submitFailed(e, err)
         \/ pollError(e, err)

\* C12 (as claimed): every step of getQuote, executeQuote or the interval
\* callback that records an error leaves loading = false and isPolling =
\* false, whatever the state before and whatever else is in flight.
C12_FailuresClearFlags ==
    [][(mounted /\ RecordsError)
       => (/\ state'.error # None
           /\ state'.loading = FALSE
           /\ state'.isPolling = FALSE)]_vars


\* The getQuote invocations still awaiting the resolver or the remote quote.
InFlight(bag) ==
    {g \in BagToSet(bag) : g.pc \in {"resolving", "cached", "fetching"}}

\* C13: overlapping getQuote invocations are neither coalesced nor
\* cancelled: each call adds an invocation of its own and leaves the others
\* in flight, and each successful completion, whatever else is in flight and
\* in whatever order the calls were made, makes its own result the held
\* quote and sets loading false (so the quote held in the end is that of
\* the invocation that completed last, and loading is false from the first
\* completion on).
C13_LastCompletedGetQuoteWins ==
    [][/\ (mounted /\ gets' # gets)
          => \A g \in BagToSet(gets), quote \in Quotes :
            getQuote_fetched(g, quote)
            => (/\ state'.quote = Some(quote)
                /\ state'.loading = FALSE
                /\ \A other \in InFlight(Take(gets, g)) :
                     CopiesIn(other, gets') = CopiesIn(other, Take(gets, g)))
       /\ (gets' # gets /\ BagCardinality(gets') > BagCardinality(gets))
          => \A request \in SimpleQuoteRequests, conn \in Connections,
                predicted \in CapturedAddresses :
            (~NotConnected(conn) /\ getQuote(request, conn, predicted))
            => (/\ BagCardinality(gets') = BagCardinality(gets) + 1
                /\ \A other \in InFlight(gets) :
                     CopiesIn(other, gets') >= CopiesIn(other, gets)
                /\ \E g \in NewGets : g \in InFlight(gets'))]_vars

\* C13 witness: of two overlapping invocations (the only calls made) one has
\* completed, the other is still in flight, and loading is already false
\* with the first result held.
C13_Witness ==
    /\ mounted
    /\ Calls = 2
    /\ execs = <<>>
    /\ BagIn(Finished("done"), gets)
    /\ InFlight(gets) # {}
    /\ state.quote # None
    /\ state.loading = FALSE


\* The responses of the remote status endpoint that end a poll, and the
\* rejection of a status request.
PollEnds ==
    \/ \E e \in DOMAIN execs, status \in {"COMPLETED", "FAILED"} :
         pollResponse(e, status)
    \/ \E e \in DOMAIN execs, err \in Thrown : pollError(e, err)

\* An active interval fires (the event loop runs every due callback), and
\* the status requests do not all hang or come back non-terminal for ever:
\* one of them is answered COMPLETED or FAILED, or rejected.
FairSpec ==
    /\ Spec
    /\ WF_vars(\E e \in DOMAIN execs : pollTick(e))
    /\ SF_vars(PollEnds)

\* The component is mounted and a poll is on: isPolling is set and the
\* interval the handle references is active.
PollingOn ==
    /\ mounted
    /\ state.isPolling = TRUE
    /\ statusPollingRef # 0
    /\ statusPollingRef \in timers

PollingOff == state.isPolling = FALSE /\ statusPollingRef = 0

\* C14: a successful submission turns the poll on; a poll that is on stays
\* on (interval active, isPolling true) through every step that is not a
\* terminal response, a rejected status request, a reset or the teardown,
\* and its interval can fire again however many requests it has issued; and
\* when ticks and responses are scheduled fairly and the remote endpoint
\* eventually returns COMPLETED or FAILED or a request is rejected, a poll
\* that is on leads to isPolling = false with the handle null (or to the
\* teardown).
C14_PollsUntilTerminal ==
    /\ [][/\ \A e \in DOMAIN execs :
               (mounted /\ executeQuote_submitted(e)) => PollingOn'
          /\ (PollingOn /\ ~(PollEnds \/ resetQuote \/ unmount)) => PollingOn'
          /\ \A e \in DOMAIN execs :
               (PollingOn /\ pollTick(e))
               => (timers' = timers /\ (polls' # polls) /\ BagIn(e, polls'))]_vars
    /\ [](PollingOn /\ BagCardinality(polls) < MaxPolls
          => ENABLED pollTick(statusPollingRef))
    /\ PollingOn ~> (PollingOff \/ ~mounted)

\* C14 witness: a status request has been answered PENDING, the poll is
\* still on and further requests are in flight, as many as the model holds.
C14_Witness ==
    /\ PollingOn
    /\ state.status # None /\ state.status[1].status = "PENDING"
    /\ BagCardinality(polls) = MaxPolls


\* C15 (as claimed): the cleanup cancels the active interval, and from the
\* teardown on no interval is active and no status request is issued, also
\* when an executeQuote invocation was still awaiting signQuote or
\* quotesApi.executeQuote at the teardown.
C15_NoPollingAfterTeardown ==
    [][~mounted'
       => (/\ timers' = {}
           /\ \A e \in DOMAIN execs : CopiesIn(e, polls') <= CopiesIn(e, polls))]_vars


\* C16: a getQuote that finds a cached address (predictedAddress as its
\* callback holds it) sends its remote request with it and does not call
\* getPredictedAddress; one that finds none calls getPredictedAddress first,
\* which derives an address when the context caches none and answers with
\* the cached one otherwise.  When the resolution rejects or yields no
\* address, quotesApi.getQuote is not called, the error is recorded, loading
\* is cleared and nothing is cached, so that a later getQuote resolves again.
C16_ResolverOnlyWithoutCache ==
    [][/\ (gets' # gets /\ BagCardinality(gets') > BagCardinality(gets))
          => \A request \in SimpleQuoteRequests, conn \in Connections,
                predicted \in CapturedAddresses :
            (Connected(conn) /\ getQuote(request, conn, predicted))
            => (/\ predictedAddress' = predictedAddress
                /\ \A g \in NewGets :
                     IF predicted # None
                     THEN /\ g.pc = "fetching"
                          /\ g.quoteRequest # None
                          /\ g.quoteRequest[1].from.account.accountAddress
                               = predicted[1]
                     ELSE /\ g.pc = IF predictedAddress = None
                                    THEN "resolving" ELSE "cached"
                          /\ g.quoteRequest = None)
       /\ gets' # gets
          => \A g \in BagToSet(gets), err \in ResolveFailures :
            getQuote_resolveFailed(g, err)
            => (/\ g.pc = "resolving"
                /\ g.quoteRequest = None
                /\ \A n \in NewGets : n.pc = "resolveFailed" /\ n.quoteRequest = None
                /\ BagCardinality(gets') = BagCardinality(gets)
                /\ predictedAddress' = predictedAddress
                /\ mounted
                   => (/\ state'.error = Some(IF err.isError THEN err.message
                                              ELSE "Failed to get quote")
                       /\ state'.loading = FALSE))]_vars

\* C16 witness: one resolution has failed, a later one has filled the cache,
\* and the other two invocations are at the remote endpoint with it.
C16_Witness ==
    /\ BagIn(Finished("resolveFailed"), gets)
    /\ predictedAddress # None
    /\ BagCardinality(gets) = 3
    /\ CopiesIn(Finished("resolveFailed"), gets) = 1
    /\ \A g \in BagToSet(gets) : g.pc \in {"resolveFailed", "fetching"}


\* A call of getQuote or executeQuote by the caller.
CallStep ==
    \/ \E request \in SimpleQuoteRequests, conn \in Connections,
          predicted \in CapturedAddresses : getQuote(request, conn, predicted)
    \/ \E conn \in Connections, quote \in rendered : executeQuote(conn, quote)

\* The state resetQuote leaves behind: all fields initial, no interval, the
\* handle null.
AfterReset ==
    /\ mounted
    /\ state = InitState
    /\ timers = {}
    /\ statusPollingRef = 0

\* C17 (as claimed): from resetQuote until the caller's next getQuote or
\* executeQuote the state stays all-initial and no interval is active: the
\* completion of a status request, of a getQuote or of an executeQuote
\* that was in flight at the reset writes nothing and installs nothing.
C17_ResetHoldsUntilNextCall ==
    [][(AfterReset /\ ~CallStep /\ ~unmount) => AfterReset']_vars


\* C18: in every state before the teardown isPolling is true exactly when
\* the handle is non-null: no isPolling without an installed interval, no
\* installed interval without isPolling.
C18_PollingIffHandle ==
    mounted => (state.isPolling = TRUE <=> statusPollingRef # 0)

\* C18 witness: a second executeQuote has failed at signing while the
\* interval of the first is installed and a status request is in flight.
C18_Witness ==
    /\ mounted
    /\ state.isPolling = TRUE
    /\ statusPollingRef = 1
    /\ BagIn(1, polls)
    /\ Len(execs) = 2
    /\ execs[2].pc = "signFailed"


\* C19 (as claimed): a quote, by id, goes to signQuote and to
\* quotesApi.executeQuote at most once: when one executeQuote invocation has
\* passed the expiration check for it, no later invocation signs or submits
\* the same quote.
C19_QuoteExecutedAtMostOnce ==
    \A e1, e2 \in DOMAIN execs :
        (/\ e1 < e2
         /\ execs[e1].signed
         /\ execs[e1].quoteId = execs[e2].quoteId)
        => (~execs[e2].signed /\ ~execs[e2].submitted)


\* C20 (as claimed): whenever a quote and a status are both held, the
\* status is the answer to a status request keyed by the id of the held
\* quote: after getQuote has stored a new quote, no status of an earlier
\* quote stands beside it.
C20_StatusBelongsToHeldQuote ==
    (mounted /\ state.quote # None /\ state.status # None)
    => state.status[1].quoteId = state.quote[1].id


====
